---- MODULE Spec2Model ----
(***************************************************************************)
(* PLC <-> MQTT bridge through two JSON files.                             *)
(*                                                                         *)
(*   mqtt_input_bridge  --/tmp/input.json-->  PSM driver (OpenPLC)         *)
(*   PSM driver         --/tmp/output.json--> mqtt_output_bridge           *)
(*                                                                         *)
(* Text (a file's bytes, an MQTT payload) is a sequence of tokens, every   *)
(* token a tuple of strings.  A Python dict is the sequence of its         *)
(* <<key, value>> items in insertion order; a key is the tuple of its      *)
(* characters (the '%' sentinel is one of them), a value is a tagged       *)
(* tuple <<"bool","True">>, <<"int","1">>, <<"str","on">>.                  *)
(***************************************************************************)
EXTENDS Integers, Sequences, FiniteSets, TLC

\* ------------------------------------------------------------------ bounds
MaxOrphans == 1      \* temporary files that may be left behind in /tmp
MaxVer == 3          \* os.replace calls on output.json that are told apart

\* ------------------------------------------------------------- text, dicts
NoFile == << <<"ENOENT">> >>        \* os.path.exists(path) is False
None   == << <<"None">> >>          \* Python's None

TokLB    == <<"{">>
TokRB    == <<"}">>
TokColon == <<":">>
TokComma == <<",">>
TokQuote == "\""
BadByte  == <<"\\xff">>             \* a byte that is not valid UTF-8

PyTrue  == <<"bool", "True">>
PyFalse == <<"bool", "False">>
PyOne   == <<"int", "1">>
PyOn    == <<"str", "on">>

KeyIX00 == <<"%", "IX0.0">>
KeyIX01 == <<"%", "IX0.1">>
KeyBAD  == <<"BAD">>

\* code point order of the characters used in keys
CharRank(c) ==
  CASE c = "%"     -> 1
    [] c = "BAD"   -> 2
    [] c = "IX0.0" -> 3
    [] c = "IX0.1" -> 4
    [] c = "QX0.0" -> 5
    [] OTHER       -> 6

\* Python's str.__lt__ : lexicographic, a proper prefix is smaller
RECURSIVE StrLess(_, _)
StrLess(a, b) ==
  IF b = <<>> THEN FALSE
  ELSE IF a = <<>> THEN TRUE
  ELSE IF Head(a) = Head(b) THEN StrLess(Tail(a), Tail(b))
  ELSE CharRank(Head(a)) < CharRank(Head(b))

DictKeys(d) == { d[i][1] : i \in DOMAIN d }
DictItems(d) == { d[i] : i \in DOMAIN d }
\* dict.__eq__ : same items, whatever the insertion order
DictEq(d1, d2) == DictItems(d1) = DictItems(d2)
DictGet(d, k) == (CHOOSE it \in DictItems(d) : it[1] = k)[2]

\* d[k] = v : an existing key keeps its position, a new key goes last
DictSet(d, k, v) ==
  IF k \in DictKeys(d)
    THEN [i \in DOMAIN d |-> IF d[i][1] = k THEN <<k, v>> ELSE d[i]]
    ELSE Append(d, <<k, v>>)

\* sorted(d.items()) of json's sort_keys=True
RECURSIVE InsertSorted(_, _)
InsertSorted(s, it) ==
  IF s = <<>> THEN <<it>>
  ELSE IF StrLess(it[1], Head(s)[1]) THEN <<it>> \o s
  ELSE <<Head(s)>> \o InsertSorted(Tail(s), it)

RECURSIVE SortItems(_)
SortItems(d) ==
  IF d = <<>> THEN <<>> ELSE InsertSorted(SortItems(Tail(d)), Head(d))

Quote(s) == <<TokQuote>> \o s \o <<TokQuote>>
IsQuoted(t) == Len(t) >= 2 /\ t[1] = TokQuote /\ t[Len(t)] = TokQuote
Unquote(t) == SubSeq(t, 2, Len(t) - 1)

\* json encoding of one value
EncodeValue(v) ==
  CASE v = PyTrue       -> <<"true">>
    [] v = PyFalse      -> <<"false">>
    [] v = None[1]      -> <<"null">>
    [] v[1] = "int"     -> <<v[2]>>
    [] OTHER            -> Quote(Tail(v))

IsValueTok(t) ==
  \/ t \in {<<"true">>, <<"false">>, <<"null">>}
  \/ Len(t) = 1 /\ t[1] \in {"0", "1", "2"}
  \/ IsQuoted(t)

\* json decoding of one value
DecodeValue(t) ==
  CASE t = <<"true">>   -> PyTrue
    [] t = <<"false">>  -> PyFalse
    [] t = <<"null">>   -> None[1]
    [] IsQuoted(t)      -> <<"str">> \o Unquote(t)
    [] OTHER            -> <<"int", t[1]>>

\* the items of an object, separators=(",", ":")
RECURSIVE EncodeItems(_)
EncodeItems(d) ==
  IF d = <<>> THEN <<>>
  ELSE <<Quote(Head(d)[1]), TokColon, EncodeValue(Head(d)[2])>>
       \o (IF Tail(d) = <<>> THEN <<>> ELSE <<TokComma>> \o EncodeItems(Tail(d)))

\* json.dumps(obj, separators=(",", ":")) : items in insertion order
Encode(d) == <<TokLB>> \o EncodeItems(d) \o <<TokRB>>

\* json.dumps(obj, separators=(",", ":"), sort_keys=True)
UnsortedDumps(d) == Encode(d)
Dumps(d) == Encode(SortItems(d))

\* the items between the braces; <<"bad">> when they are not well formed
RECURSIVE ParseItems(_, _)
ParseItems(t, acc) ==
  IF Len(t) < 3 \/ ~IsQuoted(t[1]) \/ t[2] # TokColon \/ ~IsValueTok(t[3])
    THEN [ok |-> FALSE, d |-> <<>>]
  ELSE LET acc2 == DictSet(acc, Unquote(t[1]), DecodeValue(t[3]))
       IN  IF Len(t) = 3 THEN [ok |-> TRUE, d |-> acc2]
           ELSE IF t[4] # TokComma THEN [ok |-> FALSE, d |-> <<>>]
           ELSE ParseItems(SubSeq(t, 5, Len(t)), acc2)

\* json.loads(text): ok = no JSONDecodeError, isdict = isinstance(data, dict)
Loads(t) ==
  IF Len(t) >= 2 /\ t[1] = TokLB /\ t[Len(t)] = TokRB
    THEN IF Len(t) = 2 THEN [ok |-> TRUE, isdict |-> TRUE, d |-> <<>>]
         ELSE LET r == ParseItems(SubSeq(t, 2, Len(t) - 1), <<>>)
              IN  [ok |-> r.ok, isdict |-> r.ok, d |-> r.d]
  ELSE IF t = << <<"[">>, <<"]">> >> \/ (Len(t) = 1 /\ IsValueTok(t[1]))
    THEN [ok |-> TRUE, isdict |-> FALSE, d |-> <<>>]
  ELSE [ok |-> FALSE, isdict |-> FALSE, d |-> <<>>]

\* bytes.decode("utf-8", errors="strict") succeeds
Utf8Ok(t) == \A i \in DOMAIN t : t[i] # BadByte

\* what of a text a buffered writer has handed to the file before flush():
\* here, its first half
PartialWrite(t) == SubSeq(t, 1, Len(t) \div 2)

\* ----------------------------------------------------------------- state
VARIABLES
  slot,        \* slot["in"] = /tmp/input.json, slot["out"] = /tmp/output.json
  wr,          \* wr["psm"], wr["in"] : the atomic write in progress of each writer
  orphans,     \* temporary files left behind in /tmp
  outVer,      \* how many os.replace output.json has seen, up to MaxVer
               \* (-1: not counted)
  plc,         \* the controller's variables, by name
  quit,        \* psm.should_quit()
  feed,        \* the payloads that publishers send on plc/input
  sdPc,        \* PSM driver: position in __main__
  psmApi,      \* the psm.start() and psm.stop() calls of this run of the driver
  sdBuf,       \* PSM driver: text read from input.json by the last update_inputs
  sdData,      \* PSM driver: data of the last update_inputs
  setCalls,    \* the psm.set_var calls of the last update_inputs
  sdLog,       \* what the function the PSM driver called last has printed
  outPhase,    \* output.json in this run of the driver: "pre", "empty", "skipped", "live"
  iaPc,        \* input bridge: position
  iaData,      \* input bridge: data of the on_message under way
  inLast,      \* the object of the last completed write of the input bridge
  iaMsg,       \* input bridge: what on_message got last: "not_utf8", "not_json",
               \* "not_object", "object", or "write_error" when its write raised
  oaPc,        \* output bridge: position in main
  oaRun,       \* output bridge: "none", "first" or "later" run
  oaBuf,       \* output bridge: text read from output.json by the last turn
  oaData,      \* output bridge: data of the last turn
  prevPayload, \* output bridge: previous_payload
  bus,         \* what the last turn handed to client.publish (None: nothing)
  lastPub,     \* the last payload handed to client.publish in this run
  pubVer,      \* outVer of the file when lastPub was read from it (-1: none)
  oaErr,       \* output bridge: what failed in the last turn ("none": nothing)
  oaObs,       \* the payloads read in this run, while they go A, A, A, B, B
  pubRun,      \* the payloads published in the turns of oaObs
  stable,      \* the content output.json has held ever since this run began
  seen,        \* per reader, the contents its slot has held during the read
  torn,        \* per reader, its last read returned a text the slot never held
  raced        \* per reader, an os.replace hit its slot during its last read

vars == << slot, wr, orphans, outVer, plc, quit, feed, sdPc, psmApi, sdBuf, sdData, setCalls, sdLog,
           outPhase, iaPc, iaData, inLast, iaMsg, oaPc, oaRun, oaBuf, oaData, prevPayload, bus,
           lastPub, pubVer, oaErr, oaObs, pubRun, stable, seen, torn, raced >>

storeVars == << slot, wr, orphans, outVer >>
readVars  == << seen, torn, raced >>
sdVars    == << sdPc, psmApi, sdBuf, sdData, setCalls, sdLog, outPhase >>
iaVars    == << iaPc, iaData, inLast, iaMsg >>
oaLocals  == << oaRun, oaBuf, oaData, prevPayload, bus, lastPub, pubVer, oaErr, oaObs,
               pubRun >>
oaVars    == << oaPc, oaLocals >>

\* ------------------------------------------------------------- constants
INPUT_PATH  == "in"
OUTPUT_PATH == "out"
OUTPUT_VARS == << <<"QX0.0">> >>

PlcNames == { <<"IX0.0">>, <<"IX0.1">>, <<"QX0.0">> }

\* ------------------------------------------------------------ state store
Idle == [st |-> "idle", tmp |-> NoFile, obj |-> <<>>, before |-> NoFile]

\* a call of _atomic_write_json / atomically_write_json(path, obj), up to
\* tempfile.NamedTemporaryFile("w", dir=directory, delete=False)
BeginWrite(s, obj) == [st |-> "created", tmp |-> <<>>, obj |-> obj, before |-> slot[s]]

Writing(w) == wr[w].st # "idle"

\* the target while the temporary file is being filled: the bytes go to the
\* NamedTemporaryFile, never to the target
SlotDuringWriteInPlace(target, written) == written
SlotDuringWrite(target, written) == target

\* the readers that are between their first look at slot s and their read
ReadersOf(s) ==
  IF s = INPUT_PATH THEN (IF sdPc = "in_open" THEN {"sd"} ELSE {})
                    ELSE (IF oaPc \in {"size", "open"} THEN {"oa"} ELSE {})

\* the content of the slot since the output bridge's run began: s if it is
\* s still, None once it is another
StableAfter(s) ==
  IF oaPc \in {"down", "connecting"} THEN stable
  ELSE IF stable = s THEN stable ELSE None

\* json.dump(obj, tf, separators=(",", ":"), sort_keys=True)
TmpDump(w, s) ==
  /\ wr[w].st = "created"
  /\ wr' = [wr EXCEPT ![w].st = "dumped", ![w].tmp = PartialWrite(Dumps(wr[w].obj))]
  /\ slot' = [slot EXCEPT ![s] = SlotDuringWrite(slot[s], PartialWrite(Dumps(wr[w].obj)))]
  /\ UNCHANGED << orphans, outVer, readVars, stable >>

\* tf.flush(); os.fsync(tf.fileno()); temp_name = tf.name; the file is closed
TmpSync(w, s) ==
  /\ wr[w].st = "dumped"
  /\ wr' = [wr EXCEPT ![w].st = "synced", ![w].tmp = Dumps(wr[w].obj)]
  /\ slot' = [slot EXCEPT ![s] = SlotDuringWrite(slot[s], Dumps(wr[w].obj))]
  /\ UNCHANGED << orphans, outVer, readVars, stable >>

\* os.replace(temp_name, path)
Replace(w, s) ==
  /\ wr[w].st = "synced"
  /\ slot' = [slot EXCEPT ![s] = wr[w].tmp]
  /\ wr' = [wr EXCEPT ![w] = Idle]
  /\ seen' = [r \in DOMAIN seen |->
               IF r \in ReadersOf(s) THEN seen[r] \cup {wr[w].tmp} ELSE seen[r]]
  /\ raced' = [r \in DOMAIN raced |-> r \in ReadersOf(s) \/ raced[r]]
  /\ stable' = IF s = OUTPUT_PATH THEN StableAfter(wr[w].tmp) ELSE stable
  /\ outVer' = IF s = OUTPUT_PATH /\ outVer >= 0 /\ outVer < MaxVer
                 THEN outVer + 1 ELSE outVer
  /\ UNCHANGED << orphans, torn >>

\* the file a writer writes: OUTPUT_PATH for the PSM driver, INPUT_PATH for
\* the input bridge
Target(w) == IF w = "psm" THEN OUTPUT_PATH ELSE INPUT_PATH

AbandonAndUnlink(w) ==
  /\ Writing(w)
  /\ orphans < MaxOrphans
  /\ orphans' = orphans + 1
  /\ wr' = [wr EXCEPT ![w] = Idle]
  /\ slot' = [slot EXCEPT ![Target(w)] = NoFile]
  /\ UNCHANGED << outVer, readVars, stable >>

\* the write is left before os.replace has happened (json.dump, flush, fsync
\* or os.replace raises, or the process dies): delete=False leaves the
\* temporary file where it is
Abandon(w) ==
  /\ Writing(w)
  /\ orphans < MaxOrphans
  /\ orphans' = orphans + 1
  /\ wr' = [wr EXCEPT ![w] = Idle]
  /\ UNCHANGED << slot, outVer, readVars, stable >>

\* a read ends with text buf in the hands of reader r
EndRead(r, buf) ==
  /\ torn' = [torn EXCEPT ![r] = buf \notin seen[r]]
  /\ seen' = [seen EXCEPT ![r] = {}]
  /\ UNCHANGED raced

\* a read begins: reader r finds that the slot exists
BeginRead(r, s) ==
  /\ seen' = [seen EXCEPT ![r] = {slot[s]}]
  /\ raced' = [raced EXCEPT ![r] = FALSE]
  /\ UNCHANGED torn

\* a read ends before anything is read
NoRead(r) ==
  /\ torn' = [torn EXCEPT ![r] = FALSE]
  /\ raced' = [raced EXCEPT ![r] = FALSE]
  /\ seen' = [seen EXCEPT ![r] = {}]

\* ------------------------------------------------- PSM driver (Scan Driver)
\* key.startswith("%")
AcceptsEveryKey(key) == TRUE
KeyAccepted(key) == key # <<>> /\ Head(key) = "%"

\* plc_name = key[1:]
KeepsSentinel(key) == key
PlcName(key) == Tail(key)

\* the psm.set_var calls of the first n items of data, in order
RECURSIVE CallsOf(_, _)
CallsOf(data, n) ==
  IF n = 0 THEN <<>>
  ELSE LET it == data[n]
       IN  IF KeyAccepted(it[1])
             THEN Append(CallsOf(data, n - 1),
                         [key |-> it[1], name |-> PlcName(it[1]), value |-> it[2]])
             ELSE CallsOf(data, n - 1)

\* the controller's variables after the calls have taken effect
RECURSIVE SetAll(_, _)
SetAllClearsRest(p, calls) ==
  [n \in DOMAIN p |->
     LET at == { i \in DOMAIN calls : calls[i].name = n }
     IN  IF at = {} THEN PyFalse
         ELSE calls[CHOOSE i \in at : \A j \in at : j <= i].value]
SetAll(p, calls) ==
  IF calls = <<>> THEN p
  ELSE LET c == Head(calls)
       IN  SetAll(IF c.name \in DOMAIN p THEN [p EXCEPT ![c.name] = c.value] ELSE p,
                  Tail(calls))

\* f"%{addr}"
BareKey(addr) == addr
OutputKey(addr) == <<"%">> \o addr

\* output[f"%{addr}"] = val for addr in OUTPUT_VARS
RECURSIVE CollectOutputs(_, _)
CollectOutputs(addrs, p) ==
  IF addrs = <<>> THEN <<>>
  ELSE <<  << OutputKey(Head(addrs)), p[Head(addrs)] >>  >>
       \o CollectOutputs(Tail(addrs), p)

\* the object hardware_init writes: {}
StaleSnapshot == << << <<"%", "QX0.0">>, PyTrue >> >>
EmptySnapshot == <<>>

\* hardware_init: psm.start(), then _atomic_write_json(OUTPUT_PATH, {}) up to
\* NamedTemporaryFile, which may raise: "except Exception" prints the warning
HardwareInit ==
  /\ sdPc = "boot"
  /\ psmApi' = [psmApi EXCEPT !.start = @ + 1]
  /\ \/ /\ wr' = [wr EXCEPT !["psm"] = BeginWrite(OUTPUT_PATH, EmptySnapshot)]
        /\ sdPc' = "init_write"
        /\ outPhase' = "pre"
        /\ sdLog' = {}
     \/ /\ sdPc' = "loop"
        /\ outPhase' = "skipped"
        /\ sdLog' = {"init_warning"}
        /\ UNCHANGED wr
  /\ UNCHANGED << slot, orphans, outVer, readVars, stable, plc, quit, feed, sdBuf, sdData,
                  setCalls, iaVars, oaVars >>

PsmWriting == sdPc \in {"init_write", "out_write"}
AfterPsmWrite == IF sdPc = "init_write" THEN "loop" ELSE "sleep"

\* _atomic_write_json, called by the PSM driver: the steps before os.replace
PsmWriteStep ==
  /\ PsmWriting
  /\ \/ TmpDump("psm", OUTPUT_PATH)
     \/ TmpSync("psm", OUTPUT_PATH)
  /\ UNCHANGED << plc, quit, feed, sdVars, iaVars, oaVars >>

\* _atomic_write_json, called by the PSM driver: os.replace and the return
PsmWriteReplace ==
  /\ PsmWriting
  /\ UNCHANGED psmApi
  /\ Replace("psm", OUTPUT_PATH)
  /\ sdPc' = AfterPsmWrite
  /\ outPhase' = IF sdPc = "init_write" THEN "empty" ELSE "live"
  /\ UNCHANGED << plc, quit, feed, sdBuf, sdData, setCalls, sdLog, iaVars, oaVars >>

\* an error handler that removes the file it could not write
PsmWriteRaiseUnlinks ==
  /\ PsmWriting
  /\ UNCHANGED psmApi
  /\ AbandonAndUnlink("psm")
  /\ sdPc' = AfterPsmWrite
  /\ outPhase' = IF sdPc = "init_write" THEN "skipped" ELSE outPhase
  /\ sdLog' = {IF sdPc = "init_write" THEN "init_warning" ELSE "error_out"}
  /\ UNCHANGED << plc, quit, feed, sdBuf, sdData, setCalls, iaVars, oaVars >>

\* _atomic_write_json raises: "except Exception" of hardware_init (line 58)
\* or of update_outputs (line 106) prints and the driver goes on
PsmWriteRaise ==
  /\ PsmWriting
  /\ UNCHANGED psmApi
  /\ Abandon("psm")
  /\ sdPc' = AfterPsmWrite
  /\ outPhase' = IF sdPc = "init_write" THEN "skipped" ELSE outPhase
  /\ sdLog' = {IF sdPc = "init_write" THEN "init_warning" ELSE "error_out"}
  /\ UNCHANGED << plc, quit, feed, sdBuf, sdData, setCalls, iaVars, oaVars >>

\* a loop that goes straight to update_outputs
MainLoopSkipsInputs ==
  /\ sdPc = "loop"
  /\ sdPc' = IF quit THEN "stopped" ELSE "out_collect"
  /\ psmApi' = IF quit THEN [psmApi EXCEPT !.stop = @ + 1] ELSE psmApi
  /\ UNCHANGED << storeVars, readVars, stable, plc, quit, feed, sdBuf, sdData, setCalls,
                  sdLog, outPhase, iaVars, oaVars >>

\* while not psm.should_quit(): ... ; psm.stop()
MainLoop ==
  /\ sdPc = "loop"
  /\ sdPc' = IF quit THEN "stopped" ELSE "in_exists"
  /\ psmApi' = IF quit THEN [psmApi EXCEPT !.stop = @ + 1] ELSE psmApi
  /\ UNCHANGED << storeVars, readVars, stable, plc, quit, feed, sdBuf, sdData, setCalls,
                  sdLog, outPhase, iaVars, oaVars >>

\* update_inputs: if not os.path.exists(INPUT_PATH): return
UpdateInputsResets ==
  /\ sdPc = "in_exists"
  /\ UNCHANGED psmApi
  /\ sdLog' = {}
  /\ IF slot[INPUT_PATH] = NoFile
       THEN sdPc' = "out_collect" /\ NoRead("sd")
            /\ plc' = [n \in DOMAIN plc |-> PyFalse]
       ELSE sdPc' = "in_open" /\ BeginRead("sd", INPUT_PATH)
            /\ UNCHANGED plc
  /\ UNCHANGED << storeVars, stable, quit, feed, sdBuf, sdData, setCalls, outPhase,
                  iaVars, oaVars >>

UpdateInputsExists ==
  /\ sdPc = "in_exists"
  /\ UNCHANGED psmApi
  /\ sdLog' = {}
  /\ IF slot[INPUT_PATH] = NoFile
       THEN sdPc' = "out_collect" /\ NoRead("sd")
       ELSE sdPc' = "in_open" /\ BeginRead("sd", INPUT_PATH)
  /\ UNCHANGED << storeVars, stable, plc, quit, feed, sdBuf, sdData, setCalls, outPhase,
                  iaVars, oaVars >>

\* update_inputs: open(INPUT_PATH), json.load(f), isinstance(data, dict) and
\* the loop over data.items(); psm.set_var may raise at the call made for
\* item failAt, which ends the loop (failAt = 0: no call raises)
UpdateInputsRead ==
  /\ sdPc = "in_open"
  /\ UNCHANGED psmApi
  /\ sdPc' = "out_collect"
  /\ \/ \* open or read raises OSError
        /\ sdLog' = {"error_in"}
        /\ NoRead("sd")
        /\ UNCHANGED << sdBuf, sdData, setCalls, plc >>
     \/ /\ slot[INPUT_PATH] # NoFile
        /\ sdBuf' = slot[INPUT_PATH]
        /\ EndRead("sd", slot[INPUT_PATH])
        /\ LET r == Loads(slot[INPUT_PATH])
           IN  IF ~r.ok
                 THEN /\ sdLog' = {"error_in"}
                      /\ UNCHANGED << sdData, setCalls, plc >>
               ELSE IF ~r.isdict
                 THEN /\ sdLog' = {"non_object"}
                      /\ UNCHANGED << sdData, setCalls, plc >>
               ELSE /\ sdData' = r.d
                    /\ \E failAt \in 0..Len(r.d) :
                         /\ failAt > 0 => KeyAccepted(r.d[failAt][1])
                         /\ IF failAt = 0
                              THEN /\ setCalls' = CallsOf(r.d, Len(r.d))
                                   /\ plc' = SetAll(plc, CallsOf(r.d, Len(r.d)))
                                   /\ UNCHANGED sdLog
                              ELSE /\ setCalls' = CallsOf(r.d, failAt)
                                   /\ plc' = SetAll(plc, CallsOf(r.d, failAt - 1))
                                   /\ sdLog' = {"error_in"}
  /\ UNCHANGED << storeVars, stable, quit, feed, outPhase, iaVars, oaVars >>

\* update_outputs: the loop over OUTPUT_VARS, then _atomic_write_json(
\* OUTPUT_PATH, output) up to NamedTemporaryFile; psm.get_var and
\* NamedTemporaryFile may raise
UpdateOutputsCollect ==
  /\ sdPc = "out_collect"
  /\ UNCHANGED psmApi
  /\ \/ /\ sdPc' = "out_write"
        /\ wr' = [wr EXCEPT !["psm"] =
                    BeginWrite(OUTPUT_PATH, CollectOutputs(OUTPUT_VARS, plc))]
        /\ sdLog' = {}
     \/ /\ sdPc' = "sleep"
        /\ sdLog' = {"error_out"}
        /\ UNCHANGED wr
  /\ sdBuf' = None
  /\ sdData' = None
  /\ setCalls' = <<>>
  /\ NoRead("sd")
  /\ UNCHANGED << slot, orphans, outVer, stable, plc, quit, feed, outPhase, iaVars, oaVars >>

\* a driver that would wait for input.json before its next scan
SleepUntilInput ==
  /\ sdPc = "sleep"
  /\ UNCHANGED psmApi
  /\ slot[INPUT_PATH] # NoFile
  /\ sdPc' = "loop"
  /\ UNCHANGED << storeVars, readVars, stable, plc, quit, feed, sdBuf, sdData, setCalls,
                  sdLog, outPhase, iaVars, oaVars >>

\* time.sleep(0.1)
Sleep ==
  /\ sdPc = "sleep"
  /\ UNCHANGED psmApi
  /\ sdPc' = "loop"
  /\ UNCHANGED << storeVars, readVars, stable, plc, quit, feed, sdBuf, sdData, setCalls,
                  sdLog, outPhase, iaVars, oaVars >>

\* the controller runs its program: the output changes
PlcLogic ==
  /\ plc' = [plc EXCEPT ![<<"QX0.0">>] = IF @ = PyTrue THEN PyFalse ELSE PyTrue]
  /\ UNCHANGED << storeVars, readVars, stable, quit, feed, sdVars, iaVars, oaVars >>

\* OpenPLC asks the driver to stop
RequestStop ==
  /\ ~quit
  /\ sdPc \notin {"boot", "stopped"}
  /\ quit' = TRUE
  /\ UNCHANGED << storeVars, readVars, stable, plc, feed, sdVars, iaVars, oaVars >>

\* OpenPLC is started again
PsmRestart ==
  /\ sdPc = "stopped"
  /\ sdPc' = "boot"
  /\ psmApi' = [start |-> 0, stop |-> 0]
  /\ quit' = FALSE
  /\ UNCHANGED << storeVars, readVars, stable, plc, feed, sdBuf, sdData, setCalls, sdLog,
                  outPhase, iaVars, oaVars >>

\* ------------------------------------------ input bridge (Inbound Adapter)
ObjAB == << <<KeyIX00, PyTrue>>, <<KeyBAD, PyFalse>> >>
ObjBA == << <<KeyBAD, PyOn>>, <<KeyIX00, PyFalse>> >>
ObjC  == << <<KeyIX01, PyOne>> >>
ObjIO == << <<KeyIX00, PyTrue>>, <<KeyIX01, PyOne>> >>

\* the payloads the broker may deliver on plc/input
Payloads ==
  { Encode(ObjAB), Encode(ObjBA), Encode(ObjC),
    << <<"[">>, <<"]">> >>,                  \* a JSON array
    << <<"1">> >>,                           \* a JSON number
    SubSeq(Encode(ObjC), 1, 3),              \* not JSON
    << BadByte >> }                          \* not UTF-8

\* what on_message hands to atomically_write_json: data, whatever the file holds
MergedSnapshot(current, data) ==
  data \o SelectSeq(current, LAMBDA it : it[1] \notin DictKeys(data))
InboundSnapshot(current, data) == data

\* main: client.connect, client.loop_forever
IaStart ==
  /\ iaPc = "down"
  /\ iaPc' = "listening"
  /\ UNCHANGED << storeVars, readVars, stable, plc, quit, feed, sdVars, iaData,
                  inLast, iaMsg, oaVars >>

\* what a payload is to on_message: bytes that are not UTF-8 (line 50), text
\* that is not JSON (line 51), a JSON value that is not an object (line 53),
\* or an object
PayloadKind(payload) ==
  IF ~Utf8Ok(payload) THEN "not_utf8"
  ELSE IF ~Loads(payload).ok THEN "not_json"
  ELSE IF ~Loads(payload).isdict THEN "not_object"
  ELSE "object"

\* msg.payload.decode, json.loads and isinstance(data, dict) all pass
AnyJsonAccepted(payload) == Utf8Ok(payload) /\ Loads(payload).ok
PayloadAccepted(payload) ==
  Utf8Ok(payload) /\ Loads(payload).ok /\ Loads(payload).isdict

\* on_message up to NamedTemporaryFile in atomically_write_json, which may
\* raise ("except Exception" prints)
OnMessage ==
  /\ iaPc = "listening"
  /\ \E payload \in feed :
       LET r == Loads(payload)
           cur == Loads(slot[INPUT_PATH])
       IN  IF PayloadAccepted(payload)
             THEN \/ /\ wr' = [wr EXCEPT !["in"] =
                                BeginWrite(INPUT_PATH,
                                  InboundSnapshot(IF cur.ok THEN cur.d ELSE <<>>, r.d))]
                     /\ iaPc' = "writing"
                     /\ iaData' = r.d
                     /\ iaMsg' = PayloadKind(payload)
                  \/ /\ iaMsg' = "write_error"
                     /\ UNCHANGED << wr, iaPc, iaData >>
             ELSE /\ iaMsg' = PayloadKind(payload)
                  /\ UNCHANGED << wr, iaPc, iaData >>
  /\ UNCHANGED << slot, orphans, outVer, readVars, stable, plc, quit, feed, sdVars, inLast, oaVars >>

\* atomically_write_json, called by on_message: the steps before os.replace
IaWriteStep ==
  /\ iaPc = "writing"
  /\ \/ TmpDump("in", INPUT_PATH)
     \/ TmpSync("in", INPUT_PATH)
  /\ UNCHANGED << plc, quit, feed, sdVars, iaVars, oaVars >>

\* atomically_write_json: os.replace; on_message prints and returns
IaWriteReplace ==
  /\ iaPc = "writing"
  /\ Replace("in", INPUT_PATH)
  /\ inLast' = iaData
  /\ iaData' = None
  /\ iaPc' = "listening"
  /\ UNCHANGED << plc, quit, feed, sdVars, iaMsg, oaVars >>

\* atomically_write_json raises: "except Exception" of on_message prints
IaWriteRaise ==
  /\ iaPc = "writing"
  /\ Abandon("in")
  /\ iaPc' = "listening"
  /\ iaData' = None
  /\ iaMsg' = "write_error"
  /\ UNCHANGED << plc, quit, feed, sdVars, inLast, oaVars >>

\* the process of the input bridge dies, wherever it is
IaCrash ==
  /\ iaPc # "down"
  /\ iaPc' = "down"
  /\ IF Writing("in") THEN Abandon("in") ELSE UNCHANGED << storeVars, readVars, stable >>
  /\ iaData' = None
  /\ iaMsg' = "none"
  /\ UNCHANGED << plc, quit, feed, sdVars, inLast, oaVars >>

\* ---------------------------------------- output bridge (Outbound Adapter)
\* a value json.load returned that is not a dict
NonObject == << <<"NonObject">> >>

\* the log of reads is given up once they no longer go A, A, A, B, B
Off == << << <<"off">> >> >>

FitsScenario(s) ==
  /\ Len(s) <= 5
  /\ \A i \in DOMAIN s : i <= 3 => s[i] = s[1]
  /\ \A i \in DOMAIN s : i >= 4 => s[i] = s[4] /\ s[4] # s[1]

\* main is started: mqtt.Client(), client.connect is under way
OaStart ==
  /\ oaPc = "down"
  /\ oaPc' = "connecting"
  /\ oaRun' = IF oaRun = "none" THEN "first" ELSE "later"
  /\ UNCHANGED << storeVars, readVars, stable, plc, quit, feed, sdVars, iaVars,
                  oaBuf, oaData, prevPayload, bus, lastPub, pubVer, oaErr, oaObs,
                  pubRun >>

\* a bridge that takes the file as already published when it starts
OaConnectedOldFingerprint ==
  /\ oaPc = "connecting"
  /\ oaPc' = "poll"
  /\ prevPayload' = IF Loads(slot[OUTPUT_PATH]).isdict
                      THEN Dumps(Loads(slot[OUTPUT_PATH]).d) ELSE None
  /\ lastPub' = None
  /\ pubVer' = -1
  /\ bus' = None
  /\ oaObs' = <<>>
  /\ pubRun' = <<>>
  /\ stable' = slot[OUTPUT_PATH]
  /\ UNCHANGED << storeVars, readVars, plc, quit, feed, sdVars, iaVars, oaRun,
                  oaBuf, oaData, oaErr >>

\* client.connect has returned; loop_start(); previous_payload = None
OaConnected ==
  /\ oaPc = "connecting"
  /\ oaPc' = "poll"
  /\ prevPayload' = None
  /\ lastPub' = None
  /\ pubVer' = -1
  /\ bus' = None
  /\ oaObs' = <<>>
  /\ pubRun' = <<>>
  /\ stable' = slot[OUTPUT_PATH]
  /\ UNCHANGED << storeVars, readVars, plc, quit, feed, sdVars, iaVars, oaRun,
                  oaBuf, oaData, oaErr >>

\* json.dumps(data, separators=(",", ":"), sort_keys=True)
\* a payload that carries a field output.json does not hold
PayloadWithExtra(data, buf) ==
  IF data = NonObject THEN buf ELSE Dumps(DictSet(data, KeyBAD, PyOn))
CurrentPayload(data, buf) == IF data = NonObject THEN buf ELSE Dumps(data)

\* current_payload != previous_payload
PublishAlways(current, previous) == TRUE
ShouldPublish(current, previous) == current # previous

\* previous_payload = current_payload
KeepFingerprint(current, previous) == previous
NewFingerprint(current, previous) == current

\* a turn that forgets previous_payload when there is nothing to read
TurnForgetsOnAbsent(data, buf, err) ==
  /\ oaPc' = "sleep"
  /\ oaRun' = oaRun
  /\ oaData' = data
  /\ oaBuf' = buf
  /\ IF data = None
       THEN /\ bus' = None
            /\ oaErr' = err
            /\ prevPayload' = None
            /\ UNCHANGED << lastPub, pubVer, oaObs, pubRun >>
       ELSE LET current == CurrentPayload(data, buf)
                pub == ShouldPublish(current, prevPayload)
                obs == IF oaObs # Off /\ FitsScenario(Append(oaObs, current))
                         THEN Append(oaObs, current) ELSE Off
            IN  /\ bus' = IF pub THEN current ELSE None
                /\ oaErr' \in IF pub THEN {"none", "publish"} ELSE {"none"}
                /\ prevPayload' = IF pub THEN NewFingerprint(current, prevPayload)
                                         ELSE prevPayload
                /\ lastPub' = IF pub THEN current ELSE lastPub
                /\ pubVer' = IF pub THEN outVer ELSE pubVer
                /\ oaObs' = obs
                /\ pubRun' = IF obs = Off THEN <<>>
                             ELSE IF pub THEN Append(pubRun, current) ELSE pubRun

\* main: what follows read_json_if_ready in one turn of the loop, with data
\* read from text buf (err: what read_json_if_ready caught): the test,
\* client.publish, time.sleep.  client.publish returns its result, which main
\* does not look at: a payload handed over while the broker is away is lost
Turn(data, buf, err) ==
  /\ oaPc' = "sleep"
  /\ oaRun' = oaRun
  /\ oaData' = data
  /\ oaBuf' = buf
  /\ IF data = None
       THEN /\ bus' = None
            /\ oaErr' = err
            /\ UNCHANGED << prevPayload, lastPub, pubVer, oaObs, pubRun >>
       ELSE LET current == CurrentPayload(data, buf)
                pub == ShouldPublish(current, prevPayload)
                obs == IF oaObs # Off /\ FitsScenario(Append(oaObs, current))
                         THEN Append(oaObs, current) ELSE Off
            IN  /\ bus' = IF pub THEN current ELSE None
                /\ oaErr' \in IF pub THEN {"none", "publish"} ELSE {"none"}
                /\ prevPayload' = IF pub THEN NewFingerprint(current, prevPayload)
                                         ELSE prevPayload
                /\ lastPub' = IF pub THEN current ELSE lastPub
                /\ pubVer' = IF pub THEN outVer ELSE pubVer
                /\ oaObs' = obs
                /\ pubRun' = IF obs = Off THEN <<>>
                             ELSE IF pub THEN Append(pubRun, current) ELSE pubRun

\* read_json_if_ready: not os.path.exists(path)
ReadExists ==
  /\ oaPc = "poll"
  /\ IF slot[OUTPUT_PATH] = NoFile
       THEN Turn(None, None, "none") /\ NoRead("oa")
       ELSE /\ oaPc' = "size"
            /\ UNCHANGED << oaData, oaBuf, bus, oaErr >>
            /\ BeginRead("oa", OUTPUT_PATH)
            /\ UNCHANGED << oaRun, prevPayload, lastPub, pubVer, oaObs, pubRun >>
  /\ UNCHANGED << storeVars, stable, plc, quit, feed, sdVars, iaVars >>

\* a read_json_if_ready that takes an empty file for an empty object
ReadSizeTakesEmpty ==
  /\ oaPc = "size"
  /\ IF slot[OUTPUT_PATH] = NoFile
       THEN Turn(None, None, "none") /\ NoRead("oa")
       ELSE IF slot[OUTPUT_PATH] = <<>>
         THEN Turn(<<>>, <<>>, "none") /\ NoRead("oa")
         ELSE oaPc' = "open" /\ UNCHANGED << oaLocals, readVars >>
  /\ UNCHANGED << storeVars, stable, plc, quit, feed, sdVars, iaVars >>

\* read_json_if_ready: os.path.getsize(path) == 0
ReadSize ==
  /\ oaPc = "size"
  /\ IF slot[OUTPUT_PATH] = NoFile \/ slot[OUTPUT_PATH] = <<>>
       THEN Turn(None, None, "none") /\ NoRead("oa")
       ELSE oaPc' = "open" /\ UNCHANGED << oaLocals, readVars >>
  /\ UNCHANGED << storeVars, stable, plc, quit, feed, sdVars, iaVars >>

\* a read_json_if_ready without its "except Exception": the OSError leaves main
ReadLoadPropagates ==
  /\ oaPc = "open"
  /\ oaPc' = "down"
  /\ oaErr' = "read"
  /\ NoRead("oa")
  /\ UNCHANGED << storeVars, stable, plc, quit, feed, sdVars, iaVars, oaRun, oaBuf,
                  oaData, prevPayload, bus, lastPub, pubVer, oaObs, pubRun >>

\* read_json_if_ready: open(path), json.load(f) and the two except clauses
ReadLoad ==
  /\ oaPc = "open"
  /\ \/ \* open or read raises OSError: "except Exception"
        /\ Turn(None, None, "read")
        /\ NoRead("oa")
     \/ /\ slot[OUTPUT_PATH] # NoFile
        /\ EndRead("oa", slot[OUTPUT_PATH])
        /\ LET r == Loads(slot[OUTPUT_PATH])
           IN  Turn(IF ~r.ok \/ slot[OUTPUT_PATH] = << <<"null">> >> THEN None
                    ELSE IF r.isdict THEN r.d
                    ELSE NonObject,
                    slot[OUTPUT_PATH],
                    IF r.ok THEN "none" ELSE "decode")
  /\ UNCHANGED << storeVars, stable, plc, quit, feed, sdVars, iaVars >>

\* the process of the output bridge ends (a signal, KeyboardInterrupt, a crash)
OaExit ==
  /\ oaPc # "down"
  /\ oaPc' = "down"
  /\ oaBuf' = None
  /\ oaData' = None
  /\ prevPayload' = None
  /\ lastPub' = None
  /\ pubVer' = -1
  /\ bus' = None
  /\ oaErr' = "none"
  /\ oaObs' = <<>>
  /\ pubRun' = <<>>
  /\ stable' = None
  /\ NoRead("oa")
  /\ UNCHANGED << storeVars, plc, quit, feed, sdVars, iaVars, oaRun >>

\* time.sleep(POLL_INTERVAL_SEC)
OaSleep ==
  /\ oaPc = "sleep"
  /\ oaPc' = "poll"
  /\ oaBuf' = None
  /\ oaData' = None
  /\ bus' = None
  /\ oaErr' = "none"
  /\ NoRead("oa")
  /\ UNCHANGED << storeVars, stable, plc, quit, feed, sdVars, iaVars, oaRun,
                  prevPayload, lastPub, pubVer, oaObs, pubRun >>

\* ----------------------------------------------------------- specification
OldOutput == << << <<"%", "QX0.0">>, PyTrue >> >>

InitialInputs  == { NoFile, <<>>, Dumps(ObjAB) }
InitialOutputs == { NoFile, <<>>, Dumps(OldOutput), PartialWrite(Dumps(OldOutput)) }

InitRest ==
  /\ wr = [w \in {"psm", "in"} |-> Idle]
  /\ orphans = 0
  /\ plc = [n \in PlcNames |-> PyFalse]
  /\ quit = FALSE
  /\ sdPc = "boot"
  /\ psmApi = [start |-> 0, stop |-> 0]
  /\ sdBuf = None
  /\ sdData = None
  /\ setCalls = <<>>
  /\ sdLog = {}
  /\ outPhase = "pre"
  /\ iaPc = "down"
  /\ iaData = None
  /\ inLast = None
  /\ iaMsg = "none"
  /\ oaPc = "down"
  /\ oaRun = "none"
  /\ oaBuf = None
  /\ oaData = None
  /\ prevPayload = None
  /\ bus = None
  /\ lastPub = None
  /\ pubVer = -1
  /\ oaErr = "none"
  /\ oaObs = <<>>
  /\ pubRun = <<>>
  /\ stable = None
  /\ seen = [r \in {"sd", "oa"} |-> {}]
  /\ torn = [r \in {"sd", "oa"} |-> FALSE]
  /\ raced = [r \in {"sd", "oa"} |-> FALSE]

\* the three processes on a machine where /tmp holds neither file, one
\* publisher that sends one payload, and a controller that holds its output
\* and is not started again once stopped
Init ==
  /\ slot = [in |-> NoFile, out |-> NoFile]
  /\ feed = {Encode(ObjBA)}
  /\ outVer = -1
  /\ InitRest

\* the files as earlier runs, or something else, may have left them
InitIn ==
  /\ slot \in { [in |-> i, out |-> o] : i \in InitialInputs, o \in {NoFile, Dumps(OldOutput)} }
  /\ feed = Payloads
  /\ outVer = -1
  /\ InitRest

InitOut ==
  /\ slot \in { [in |-> i, out |-> o] : i \in {<<>>}, o \in InitialOutputs }
  /\ feed = {}
  /\ outVer = -1
  /\ InitRest

SdStep ==
  \/ HardwareInit
  \/ PsmWriteStep
  \/ PsmWriteReplace
  \/ PsmWriteRaise
  \/ MainLoop
  \/ UpdateInputsExists
  \/ UpdateInputsRead
  \/ UpdateOutputsCollect
  \/ Sleep

IaStep ==
  \/ IaStart
  \/ OnMessage
  \/ IaWriteStep
  \/ IaWriteReplace
  \/ IaWriteRaise
  \/ IaCrash

OaStep ==
  \/ OaStart
  \/ OaConnected
  \/ ReadExists
  \/ ReadSize
  \/ ReadLoad
  \/ OaSleep
  \/ OaExit

EnvStep ==
  \/ PlcLogic
  \/ RequestStop
  \/ PsmRestart

Next == SdStep \/ IaStep \/ OaStep \/ RequestStop

Spec == Init /\ [][Next]_vars

\* the PSM driver keeps running: its loop sleeps 0.1 s and goes on, whatever
\* the other processes do
FairSpec == Spec /\ WF_vars(SdStep)

\* the three processes on a machine where something that does not follow the
\* protocol has left both files half written; the driver's loop goes on
InitFaults ==
  /\ slot = [in |-> PartialWrite(Dumps(ObjAB)), out |-> PartialWrite(Dumps(OldOutput))]
  /\ feed = {Encode(ObjBA)}
  /\ outVer = -1
  /\ InitRest
SpecFaults == InitFaults /\ [][Next]_vars /\ WF_vars(SdStep)

\* the input lane alone: the output bridge is not running
NextIn == SdStep \/ IaStep \/ EnvStep
SpecIn == InitIn /\ [][NextIn]_vars

\* the driver alone, on an input.json that an earlier run of the input bridge
\* has left
InitApply ==
  /\ slot \in { [in |-> i, out |-> NoFile] : i \in {Dumps(ObjIO), Dumps(ObjAB)} }
  /\ feed = {}
  /\ outVer = -1
  /\ InitRest
NextApply == SdStep \/ EnvStep
SpecApply == InitApply /\ [][NextApply]_vars

\* the driver and the output bridge on files that are missing or empty
InitAbsent ==
  /\ slot \in { [in |-> i, out |-> o] : i \in {NoFile, <<>>}, o \in {NoFile, <<>>} }
  /\ feed = {}
  /\ outVer = -1
  /\ InitRest
SpecAbsent == InitAbsent /\ [][SdStep \/ OaStep \/ PlcLogic]_vars

\* the input lane from an empty /tmp, with publishers that send two objects
\* in any order, any number of times; the driver's loop goes on
InitLatest ==
  /\ slot = [in |-> NoFile, out |-> NoFile]
  /\ feed = {Encode(ObjIO), Encode(ObjBA)}
  /\ outVer = -1
  /\ InitRest
SpecLatest == InitLatest /\ [][NextIn]_vars /\ WF_vars(SdStep)

\* the output lane alone: the input bridge is not running
NextOut == SdStep \/ OaStep \/ PlcLogic
SpecOut == InitOut /\ [][NextOut]_vars

\* the output lane with the os.replace calls on output.json counted
InitOrder ==
  /\ slot \in { [in |-> i, out |-> o] : i \in {<<>>}, o \in InitialOutputs }
  /\ feed = {}
  /\ outVer = 0
  /\ InitRest
SpecOrder == InitOrder /\ [][NextOut]_vars

\* the driver's loop goes on (FairSpecScan); the output bridge keeps polling
\* (FairSpecOut): client.connect returns, each call of
\* read_json_if_ready and each time.sleep(POLL_INTERVAL_SEC) ends
FairSpecScan == SpecOut /\ WF_vars(SdStep)
OaPoll == OaConnected \/ ReadExists \/ ReadSize \/ ReadLoad \/ OaSleep
FairSpecOut == SpecOut /\ WF_vars(OaPoll)

\* ------------------------------------------------------------- properties
\* one turn of the output bridge's loop ends in this step
TurnStep == oaPc \in {"poll", "size", "open"} /\ oaPc' = "sleep"

\* a sequence without its repetitions of the element before
RECURSIVE Compress(_)
Compress(q) ==
  IF Len(q) <= 1 THEN q
  ELSE IF q[Len(q)] = q[Len(q) - 1] THEN Compress(SubSeq(q, 1, Len(q) - 1))
  ELSE Append(Compress(SubSeq(q, 1, Len(q) - 1)), q[Len(q)])

\* the dicts with the items of d, in every insertion order
Orders(d) == { q \in [1..Len(d) -> DictItems(d)] : DictItems(q) = DictItems(d) }

EmptyText == <<TokLB, TokRB>>

\* C1: whatever the interleaving of a slot write with the reads of the PSM
\* driver (input.json) and of the output bridge (output.json), the text a read
\* gets is one the slot held, complete, at some moment of that read (what it
\* held when the read began, or what an os.replace installed since); the data
\* a read yields is the decoding of that text.
C1_AtomicReads ==
  /\ \A r \in {"sd", "oa"} : ~torn[r]
  /\ sdData # None => Loads(sdBuf).ok /\ sdData = Loads(sdBuf).d
  /\ oaData \notin {None, NonObject} => Loads(oaBuf).ok /\ oaData = Loads(oaBuf).d

\* both readers have read a slot that was replaced during the read, and got a snapshot
C1_Witness ==
  /\ raced["oa"] /\ oaData # None /\ oaBuf = slot[OUTPUT_PATH]
  /\ raced["sd"] /\ sdData # None /\ sdBuf = slot[INPUT_PATH]

\* C2: a turn of the output bridge publishes if and only if the read had data
\* and its canonical serialization differs from previous_payload; the
\* published payload is that serialization, becomes previous_payload and
\* differs from the publication before it in the run; a turn that does not
\* publish leaves previous_payload alone; reads that go A, A, A, B, B give
\* the publications A, B.
C2_PublishOnChange ==
  /\ [][TurnStep =>
          LET current == CurrentPayload(oaData', oaBuf')
          IN  /\ (bus' # None) <=> (oaData' # None /\ current # prevPayload)
              /\ bus' # None => bus' = current /\ prevPayload' = current /\ bus' # lastPub
              /\ bus' = None => prevPayload' = prevPayload]_vars
  /\ [](oaObs # Off => pubRun = Compress(oaObs))

\* five reads A, A, A, B, B and two publications A, B
C2_Witness ==
  /\ oaObs # Off
  /\ Len(oaObs) = 5
  /\ oaObs[1] # oaObs[4]
  /\ pubRun = << oaObs[1], oaObs[4] >>

\* C3: in a run of the output bridge during which output.json has held the
\* same content C since the run began, a turn that reads C publishes if and
\* only if no earlier turn of the run has read it, and what it publishes is C.
C3_RestartPublishesOnce ==
  [][TurnStep /\ stable' # None /\ oaData' # None =>
       /\ (bus' # None) <=> (oaObs = <<>>)
       /\ bus' # None => bus' = Dumps(Loads(stable').d)]_vars

\* a later run has read the unchanged content three times and published it once
C3_Witness ==
  /\ oaRun = "later"
  /\ stable # None
  /\ oaObs = << stable, stable, stable >>
  /\ pubRun = << stable >>
  /\ bus = None

\* C4: the input bridge writes an accepted payload with all its items, the
\* ones whose key lacks the '%' included; update_inputs calls psm.set_var only
\* for items of the file whose key begins with '%', with the key less its '%'
\* and the item's value.
C4_LenientWriteStrictApply ==
  /\ inLast # None => DictItems(inLast) = DictItems(Loads(slot[INPUT_PATH]).d)
  /\ \A i \in DOMAIN setCalls :
       /\ Head(setCalls[i].key) = "%"
       /\ setCalls[i].name = Tail(setCalls[i].key)
       /\ << setCalls[i].key, setCalls[i].value >> \in DictItems(sdData)

\* {"%IX0.0": true, "BAD": false} was written in full and applied: one call, IX0.0
C4_Witness ==
  /\ inLast = ObjAB
  /\ DictItems(sdData) = DictItems(ObjAB)
  /\ setCalls = << [key |-> KeyIX00, name |-> <<"IX0.0">>, value |-> PyTrue] >>
  /\ plc[<<"IX0.0">>] = PyTrue
  /\ sdLog = {}

C6_AbsentInputNoOp ==
  [][sdPc = "in_exists" /\ slot[INPUT_PATH] = NoFile /\ sdPc' # sdPc =>
       /\ sdPc' = "out_collect"
       /\ plc' = plc
       /\ setCalls' = <<>>
       /\ sdLog' = {}]_vars

\* update_inputs has returned on a missing file, the output variable being set
C6_Witness ==
  /\ sdPc = "out_collect"
  /\ slot[INPUT_PATH] = NoFile
  /\ setCalls = <<>>
  /\ sdLog = {}
  /\ plc[<<"QX0.0">>] = PyTrue

\* C7: after a completed write of S by the input bridge the file holds the
\* same text for every insertion order of S's items, and update_inputs, reading
\* that text, gets a dict equal to S.
C7_RoundTrip ==
  /\ inLast # None =>
       /\ \A q \in Orders(inLast) : Dumps(q) = slot[INPUT_PATH]
       /\ DictEq(Loads(slot[INPUT_PATH]).d, inLast)
  /\ inLast # None /\ sdData # None /\ sdBuf = slot[INPUT_PATH] => DictEq(sdData, inLast)

\* {"BAD": "on", "%IX0.0": false} was written, stored sorted, and read back
C7_Witness ==
  /\ inLast = ObjBA
  /\ sdBuf = slot[INPUT_PATH]
  /\ sdData # None
  /\ sdData # ObjBA
  /\ DictEq(sdData, ObjBA)

\* C8: as long as the PSM driver has not stopped, a step of it is possible,
\* wherever the two bridges are (not started, dead, inside a write, waiting
\* for the broker); if it keeps taking its steps, then it reaches the sleep that
\* ends a scan period again and again, unless OpenPLC has asked it to stop.
C8_ScanNeverBlocked ==
  /\ [](sdPc # "stopped" => ENABLED SdStep)
  /\ []<>(quit \/ sdPc = "sleep")

\* a period has ended while the input bridge is inside a write and the
\* output bridge waits for the broker
C8_Witness ==
  /\ ~quit
  /\ sdPc = "sleep"
  /\ outPhase = "live"
  /\ iaPc = "writing"
  /\ wr["in"].st = "dumped"
  /\ oaPc = "connecting"

\* C9: as long as a write has not reached os.replace the target holds what it
\* held when the write began; a step that leaves a write (one more temporary
\* file is left behind) changes neither slot.
C9_AbandonedWriteKeepsTarget ==
  /\ [](\A w \in {"psm", "in"} : Writing(w) => slot[Target(w)] = wr[w].before)
  /\ [][orphans' # orphans =>
          /\ orphans' = orphans + 1
          /\ slot' = slot
          /\ \E w \in {"psm", "in"} : Writing(w) /\ ~Writing(w)']_vars

\* the input bridge has left a write, the driver never ran: no input.json
C9_Witness ==
  /\ orphans = 1
  /\ sdPc = "boot"
  /\ outPhase = "pre"
  /\ inLast = None
  /\ slot[INPUT_PATH] = NoFile
  /\ ~Writing("in")

\* C10: input.json changes only in the os.replace of the input bridge, never
\* to "no file"; after a completed write it holds exactly the items of the
\* payload accepted last.
C10_InboundWholeReplace ==
  /\ [](inLast # None =>
          /\ Loads(slot[INPUT_PATH]).ok
          /\ DictItems(Loads(slot[INPUT_PATH]).d) = DictItems(inLast))
  /\ [][slot'[INPUT_PATH] # slot[INPUT_PATH] =>
          /\ iaPc = "writing" /\ iaPc' = "listening"
          /\ slot'[INPUT_PATH] # NoFile
          /\ inLast' = iaData
          /\ \E payload \in feed : Loads(payload).isdict /\ Loads(payload).d = iaData]_vars

\* {"%IX0.1": 1} has replaced {"%IX0.0": true, "BAD": false}, which had been applied
C10_Witness ==
  /\ inLast = ObjC
  /\ slot[INPUT_PATH] = Dumps(ObjC)
  /\ plc[<<"IX0.0">>] = PyTrue

\* the names of OUTPUT_VARS, each with a leading '%'
PrefixedOutputVars == { <<"%">> \o OUTPUT_VARS[i] : i \in DOMAIN OUTPUT_VARS }

C12_BadPayloadDropped ==
  /\ [][iaPc = "listening" /\ iaMsg' \in {"not_utf8", "not_json", "not_object"} =>
          /\ slot'[INPUT_PATH] = slot[INPUT_PATH]
          /\ wr'["in"] = wr["in"]
          /\ inLast' = inLast
          /\ iaPc' = "listening"]_vars
  /\ [](iaPc = "listening" /\ iaMsg \in {"not_utf8", "not_json", "not_object"} =>
          ENABLED (OnMessage /\ iaPc' = "writing"))
  /\ [][iaPc = "listening" /\ iaPc' = "writing" =>
          /\ iaMsg' = "object"
          /\ \E payload \in feed :
               /\ PayloadKind(payload) = "object"
               /\ iaData' = Loads(payload).d
               /\ wr'["in"] = [st |-> "created", tmp |-> <<>>, obj |-> iaData',
                               before |-> slot[INPUT_PATH]]]_vars

\* a payload that is not JSON came after {"%IX0.1": 1} had gone to the file:
\* the file holds {"%IX0.1": 1} still and the bridge listens
C12_Witness ==
  /\ iaPc = "listening"
  /\ iaMsg = "not_json"
  /\ inLast = ObjC
  /\ slot[INPUT_PATH] = Dumps(ObjC)

\* what the driver prints when an "except Exception" of its has caught
SdErrors == {"init_warning", "error_in", "error_out"}

C14_ConvergesAfterRestart ==
  <>[](stable # None /\ Loads(stable).isdict /\ oaErr # "read")
    => <>[](lastPub = Dumps(Loads(stable).d) /\ bus = None)

\* a later run has published the file's content, which has not changed since
\* the run began, and polls on
C14_Witness ==
  /\ oaRun = "later"
  /\ oaPc = "poll"
  /\ stable = slot[OUTPUT_PATH]
  /\ Loads(stable).isdict
  /\ lastPub = Dumps(Loads(stable).d)
  /\ oaObs = << lastPub, lastPub >>
  /\ outPhase = "live"

\* the order of __main__: from a position of the driver to the next
Flow ==
  { <<"boot", "init_write">>, <<"boot", "loop">>, <<"init_write", "loop">>,
    <<"loop", "in_exists">>, <<"loop", "stopped">>,
    <<"in_exists", "in_open">>, <<"in_exists", "out_collect">>,
    <<"in_open", "out_collect">>,
    <<"out_collect", "out_write">>, <<"out_collect", "sleep">>,
    <<"out_write", "sleep">>, <<"sleep", "loop">>,
    <<"stopped", "boot">> }

\* C15: in a run of the driver psm.start() is called once, before any
\* psm.set_var, psm.get_var or write of output.json; every period goes
\* through update_inputs, then update_outputs, then time.sleep; psm.stop() is
\* called once, when psm.should_quit() has returned true, and after it the
\* driver calls nothing and writes nothing.
C15_InitRunningStopped ==
  /\ [](psmApi.start = (IF sdPc = "boot" THEN 0 ELSE 1))
  /\ [](psmApi.stop = (IF sdPc = "stopped" THEN 1 ELSE 0))
  /\ [][sdPc' # sdPc => << sdPc, sdPc' >> \in Flow]_vars
  /\ [][sdPc # "stopped" /\ sdPc' = "stopped" => quit]_vars
  /\ [][\/ wr'["psm"] # wr["psm"]
        \/ slot'[OUTPUT_PATH] # slot[OUTPUT_PATH]
        \/ setCalls' # setCalls
        \/ \E n \in {<<"IX0.0">>, <<"IX0.1">>} : plc'[n] # plc[n]
        => psmApi'.start = 1 /\ psmApi'.stop = 0 /\ sdPc' # "stopped"]_vars

\* a run that has applied {"%IX0.0": true, "BAD": false}, written
\* output.json and stopped
C15_Witness ==
  /\ sdPc = "stopped"
  /\ quit
  /\ psmApi = [start |-> 1, stop |-> 1]
  /\ outPhase = "live"
  /\ plc[<<"IX0.0">>] = PyTrue
  /\ ~Writing("psm")

\* the items of S whose key begins with '%', in S's order, as psm.set_var calls
PrefixedEntries(S) == SelectSeq(S, LAMBDA it : it[1] # <<>> /\ Head(it[1]) = "%")
WantedCalls(S) ==
  [i \in DOMAIN PrefixedEntries(S) |->
     [key   |-> PrefixedEntries(S)[i][1],
      name  |-> Tail(PrefixedEntries(S)[i][1]),
      value |-> PrefixedEntries(S)[i][2]]]

\* update_inputs ends in this step, having read an object from input.json
AppliesObject ==
  /\ sdPc = "in_open" /\ sdPc' = "out_collect"
  /\ sdBuf' # None
  /\ Loads(sdBuf').isdict

\* C16 as amended: update_inputs, having read the object S, calls psm.set_var
\* for the '%' items of S in S's order, once each, with the key less its '%'
\* and the item's value; when no call raises, for every one of them; when a
\* call raises, that call is the last of the period, the variables of the
\* items before it are set and the driver goes on to update_outputs.
C16_CallsUpToFirstRaise ==
  [][AppliesObject =>
       LET want == WantedCalls(Loads(sdBuf').d)
       IN  /\ Len(setCalls') <= Len(want)
           /\ setCalls' = SubSeq(want, 1, Len(setCalls'))
           /\ sdLog' = {} => setCalls' = want
           /\ sdLog' = {} =>
                \A i \in DOMAIN want :
                   want[i].name \in DOMAIN plc => plc'[want[i].name] = want[i].value
           /\ sdLog' # {} =>
                /\ sdLog' = {"error_in"}
                /\ setCalls' # <<>>
                /\ \A i \in 1..(Len(setCalls') - 1) :
                     want[i].name \in DOMAIN plc => plc'[want[i].name] = want[i].value]_vars

\* {"%IX0.0": true, "%IX0.1": 1}: psm.set_var("IX0.0", True) raised, no call for IX0.1
C16_Witness ==
  /\ sdPc = "out_collect"
  /\ sdData = ObjIO
  /\ sdLog = {"error_in"}
  /\ Len(setCalls) = 1
  /\ setCalls[1].name = <<"IX0.0">>
  /\ plc[<<"IX0.1">>] = PyFalse

\* C16 as claimed: update_inputs, having read the object S, calls psm.set_var
\* once for every '%' item of S, also when one of the calls raises.
C16_Original ==
  [][AppliesObject => setCalls' = WantedCalls(Loads(sdBuf').d)]_vars

\* the snapshot of the controller's outputs as they are
OutputsNow == [i \in DOMAIN OUTPUT_VARS |-> << <<"%">> \o OUTPUT_VARS[i], plc[OUTPUT_VARS[i]] >>]

\* C17: a step in which update_outputs catches an error (psm.get_var or the
\* write raises) leaves output.json as it was; every update_outputs that gets
\* to its write writes the controller's outputs as they are then, and
\* output.json changes only to the snapshot of a completed write; if from
\* some point on update_outputs no longer fails and the outputs no longer
\* change, output.json comes to hold them for good.
C17_FailedCollectRetried ==
  /\ [][sdLog' = {"error_out"} => slot'[OUTPUT_PATH] = slot[OUTPUT_PATH]]_vars
  /\ [][sdPc = "out_collect" /\ sdPc' = "out_write" =>
          wr'["psm"].obj = OutputsNow /\ wr'["psm"].st = "created"]_vars
  /\ [][slot'[OUTPUT_PATH] # slot[OUTPUT_PATH] =>
          wr["psm"].st = "synced" /\ slot'[OUTPUT_PATH] = Dumps(wr["psm"].obj)]_vars
  /\ \A v \in {PyTrue, PyFalse} :
       <>[](plc[<<"QX0.0">>] = v /\ sdLog # {"error_out"})
         => <>[](slot[OUTPUT_PATH] = Dumps(<< << <<"%", "QX0.0">>, v >> >>))

\* the write of {"%QX0.0": true} raised: output.json holds {"%QX0.0": false},
\* written one period before
C17_Witness ==
  /\ sdPc = "sleep"
  /\ sdLog = {"error_out"}
  /\ orphans = 1
  /\ outPhase = "live"
  /\ plc[<<"QX0.0">>] = PyTrue
  /\ slot[OUTPUT_PATH] = Dumps(<< << <<"%", "QX0.0">>, PyFalse >> >>)

\* C18: a turn in which read_json_if_ready returns None (no file, an empty
\* file, text that does not decode, an OSError) publishes nothing and leaves
\* previous_payload as it was; a turn that reads the content published last
\* in the run publishes nothing, whatever turns came between.
C18_AbsentTickSkipped ==
  /\ [][TurnStep /\ oaData' = None =>
          /\ bus' = None
          /\ prevPayload' = prevPayload
          /\ lastPub' = lastPub]_vars
  /\ [][TurnStep /\ oaData' # None /\ lastPub # None
             /\ CurrentPayload(oaData', oaBuf') = lastPub =>
          bus' = None /\ prevPayload' = lastPub]_vars

\* after the publication of the file's content a read failed: nothing is
\* published and previous_payload is still that content
C18_Witness ==
  /\ oaPc = "sleep"
  /\ oaData = None
  /\ oaErr = "read"
  /\ bus = None
  /\ prevPayload # None
  /\ Loads(slot[OUTPUT_PATH]).isdict
  /\ prevPayload = Dumps(Loads(slot[OUTPUT_PATH]).d)

\* update_inputs comes to a file that is missing (at os.path.exists) or
\* empty (at json.load); the output bridge likewise (os.path.exists, getsize)
SdMeetsAbsent ==
  \/ sdPc = "in_exists" /\ slot[INPUT_PATH] = NoFile
  \/ sdPc = "in_open" /\ slot[INPUT_PATH] = <<>>
OaMeetsAbsent ==
  \/ oaPc = "poll" /\ slot[OUTPUT_PATH] = NoFile
  \/ oaPc = "size" /\ slot[OUTPUT_PATH] = <<>>

\* C19: update_inputs on a missing input.json and on an empty one ends
\* without a psm.set_var call, with the controller's variables as they were,
\* and update_outputs follows; a turn of the output bridge on a missing
\* output.json and on an empty one gets no data, publishes nothing and leaves
\* previous_payload as it was.
C19_EmptyLikeMissing ==
  /\ [][SdMeetsAbsent /\ sdPc' # sdPc =>
          /\ sdPc' = "out_collect"
          /\ setCalls' = <<>>
          /\ sdData' = None
          /\ plc' = plc]_vars
  /\ [][sdPc = "in_exists" /\ slot[INPUT_PATH] = <<>> /\ sdPc' # sdPc =>
          sdPc' = "in_open" /\ setCalls' = <<>> /\ plc' = plc]_vars
  /\ [][OaMeetsAbsent /\ oaPc' \notin {oaPc, "down"} =>
          /\ oaPc' = "sleep"
          /\ oaData' = None
          /\ bus' = None
          /\ prevPayload' = prevPayload]_vars
  /\ [][oaPc = "poll" /\ slot[OUTPUT_PATH] = <<>> /\ oaPc' \notin {oaPc, "down"} =>
          oaPc' = "size" /\ bus' = bus /\ prevPayload' = prevPayload]_vars

\* both files are empty: update_inputs has ended without a call, the
\* controller's output being set, and the output bridge's turn without data
C19_Witness ==
  /\ slot = [in |-> <<>>, out |-> <<>>]
  /\ sdPc = "out_collect"
  /\ sdBuf = <<>>
  /\ setCalls = <<>>
  /\ plc[<<"QX0.0">>] = PyTrue
  /\ oaPc = "sleep"
  /\ oaData = None
  /\ oaErr = "none"
  /\ prevPayload = None

\* client.publish is called in this step
Publishes == TurnStep /\ bus' # None

\* C20: every payload the output bridge publishes is the canonical
\* serialization of the text output.json held, complete, when the turn that
\* publishes it read the file; a publication is never of an earlier os.replace
\* than the publication before it in the same run, and os.replace calls
\* between two polls may go unpublished.
C20_PublishedInWriteOrder ==
  /\ [][Publishes =>
          /\ oaBuf' = slot[OUTPUT_PATH]
          /\ ~torn'["oa"]
          /\ Loads(slot[OUTPUT_PATH]).ok
          /\ bus' = IF Loads(slot[OUTPUT_PATH]).isdict
                      THEN Dumps(Loads(slot[OUTPUT_PATH]).d)
                      ELSE slot[OUTPUT_PATH]
          /\ lastPub' = bus'
          /\ pubVer' = outVer
          /\ pubVer' >= pubVer]_vars
  /\ [][pubVer' # pubVer => Publishes \/ pubVer' = -1]_vars
  /\ [](pubVer <= outVer)
  /\ []((lastPub = None) <=> (pubVer = -1))

\* the run has published {} and then, two os.replace calls later, the
\* controller's outputs: the snapshot written in between was never published
C20_Witness ==
  /\ oaObs # Off
  /\ pubRun = << EmptyText, Dumps(OutputsNow) >>
  /\ bus = Dumps(OutputsNow)
  /\ pubVer = 3
  /\ outVer = 3

\* the objects the publishers of InitLatest send
LatestObjs == {ObjIO, ObjBA}

\* what update_inputs calls psm.set_var with when input.json holds obj
CallsFor(obj) == WantedCalls(Loads(Dumps(obj)).d)

\* every variable named by a '%' key of obj holds obj's value
HoldsInputs(obj) ==
  \A i \in DOMAIN CallsFor(obj) : plc[CallsFor(obj)[i].name] = CallsFor(obj)[i].value

\* the controller's variables that its own program does not write
InputNames == PlcNames \ { OUTPUT_VARS[i] : i \in DOMAIN OUTPUT_VARS }

\* the last update_inputs printed its error: open or json.load raised
\* (ReadFailed), or a psm.set_var call did (SetVarFailed)
ReadFailed   == sdLog = {"error_in"} /\ sdData = None
SetVarFailed == sdLog = {"error_in"} /\ sdData # None

====
